---- MODULE Spec2Model ----
(***************************************************************************)
(* Model of the halloween-bot command dispatcher and reward engine         *)
(* (src/index.js).  Every `await` of the source is a suspension point, so  *)
(* each action below runs one handler from one await to the next; several  *)
(* commands (also of the same user) may be in flight at once.              *)
(*                                                                         *)
(* Time is in milliseconds.  Math.random() is modelled in hundredths:      *)
(* a draw h stands for the float h/100 in [0,1).                           *)
(***************************************************************************)
EXTENDS Integers, Sequences, FiniteSets, TLC

\* ---------------------------------------------------------------- bounds
NumCmds == 2                \* command invocations delivered to the bot
MaxTicks == 1               \* clock advances during a run
StartTime == 10000000       \* Date.now() when the first command arrives
MaxRows == 3                \* documents the leaderboard query returns at most

Cmds == 1..NumCmds
Users == {"u1", "u2"}
CommandNames == {"trickortreat", "inventory", "shop", "topspook"}
QueryResults == {"ranking", "empty", "unavailable"}

\* Results of Math.random() are sampled in hundredths, one sample per call
\* site: p1 (line 212), p2 (line 237), hm (lines 218, 239, 243, 247) and
\* hl (line 233).  Spec interleaves the commands of one user over a few draws
\* with a gateway that answers every call; SpecOne runs one command of any
\* user over many stores, times and draws, and every call may fail.
Racers == {"u1"}
Answers == {TRUE}
P1Draws == {9, 10}
P2Draws == {74}
MagDraws == {99}
LineDraws == {0}
Deltas == {7200000}         \* amounts by which the clock advances

P1DrawsOne == {9, 10}
P2DrawsOne == {74, 75, 94, 95}
MagDrawsOne == {0, 20, 40, 60, 80, 99}
LineDrawsOne == {0, 50, 99}
DeltasOne == {1000, 7200000}

Undefined == "undefined"
NoMessage == <<>>           \* profile.message of an object that has none

\* ------------------------------------------------------ program constants
COOLDOWN_TIME == 2 * 60 * 60 * 1000

QueryLimit == 10            \* limit(10) of the leaderboard query

SHOP_ITEMS == <<
    [id |-> "hat",   name |-> "Witch's Hat",    cost |-> 50,  title |-> "The Bewitched"],
    [id |-> "mask",  name |-> "Jason Mask",     cost |-> 150, title |-> "The Maniac"],
    [id |-> "ghost", name |-> "Ghostly Shroud", cost |-> 300, title |-> "A Vile Specter"] >>

\* interaction.user.username of each user
UsernameOf(u) == IF u = "u1" THEN "ann" ELSE "bob"

VARIABLES
    store,      \* Firestore: the profile document of each user
    clock,      \* Date.now()
    ticks,      \* number of clock advances so far
    cmd,        \* per interaction: position and locals of the handler
    initCandy,  \* history: candy of each user at start
    applied,    \* history: sum of candyChange of committed transactions, per user
    phase,      \* how far the ready listener has come
    userId      \* the global userId, set by initializeFirebaseAndAuth

vars == <<store, clock, ticks, cmd, initCandy, applied, phase, userId>>

\* ------------------------------------------------------------- documents
NoDoc == [exists |-> FALSE, candy |-> 0, title |-> Undefined, inventory |-> <<>>,
          lastUsed |-> 0, username |-> Undefined]

Doc(candy, lastUsed, inventory) ==
    [exists |-> TRUE, candy |-> candy, title |-> "New Trick-or-Treater",
     inventory |-> inventory, lastUsed |-> lastUsed, username |-> "old"]

\* the object a handler holds: document fields plus the message it attaches
DefaultProfile == [candy |-> 0, title |-> "New Trick-or-Treater", inventory |-> <<>>,
                   lastUsed |-> 0, username |-> Undefined, message |-> NoMessage]

ErrorProfile == [DefaultProfile EXCEPT !.title = "Error Status"]

\* docSnap.data()
Data(d) == [candy |-> d.candy, title |-> d.title, inventory |-> d.inventory,
            lastUsed |-> d.lastUsed, username |-> d.username, message |-> NoMessage]

\* getUserProfile: the document, the default for a missing one, the error
\* profile when the read throws
getUserProfile(u, ok) ==
    IF ~ok THEN ErrorProfile
    ELSE IF store[u].exists THEN Data(store[u]) ELSE DefaultProfile

\* ------------------------------------------------------------ cooldown gate
\* the gate with the boundary on the wrong side
CooldownBlockedInclusive(lastUsed, now) == lastUsed + COOLDOWN_TIME >= now

\* line 200: the action is blocked while the cooldown has not elapsed
CooldownBlocked(lastUsed, now) == lastUsed + COOLDOWN_TIME > now

\* line 201
RemainingTime(lastUsed, now) == lastUsed + COOLDOWN_TIME - now

\* line 202: Math.floor(remainingTime / (1000 * 60 * 60))
RemainingHours(remainingTime) == remainingTime \div (1000 * 60 * 60)

\* the minutes rounded down
RemainingMinutesFloor(remainingTime) ==
    (remainingTime % (1000 * 60 * 60)) \div (1000 * 60)

\* line 203: Math.ceil((remainingTime % (1000 * 60 * 60)) / (1000 * 60))
RemainingMinutes(remainingTime) ==
    LET rest == remainingTime % (1000 * 60 * 60)
    IN  (rest + (1000 * 60) - 1) \div (1000 * 60)

\* ------------------------------------------------------------ reward engine
\* Math.floor(Math.random() * n) for the draw h/100
FloorDraw(h, n) == (h * n) \div 100

\* line 212
IsTrick(p1) == p1 < 10

\* line 218: -Math.floor(Math.random() * 6) - 1
TrickMagnitude(h) == FloorDraw(h, 6) + 1

\* the deduction without the clamp
TrickChangeUnclamped(candy, h) == -FloorDraw(h, 6) - 1

\* lines 218-223: the deduction, clamped against the profile read before the draw
TrickChange(candy, h) ==
    LET candyChange == -FloorDraw(h, 6) - 1
    IN  IF candy + candyChange < 0 THEN -candy ELSE candyChange

\* the if-chain with <= for <
TreatTierInclusive(p2) ==
    IF p2 <= 75 THEN "Common" ELSE IF p2 <= 95 THEN "Rare" ELSE "Jackpot"

\* lines 238, 242, 246: the branch of the if-chain taken for the draw p2
TreatTier(p2) == IF p2 < 75 THEN "Common" ELSE IF p2 < 95 THEN "Rare" ELSE "Jackpot"

\* lines 239, 243, 247: the gain drawn in that branch
TreatChange(p2, h) ==
    LET tier == TreatTier(p2)
    IN  IF tier = "Common" THEN FloorDraw(h, 5) + 1
        ELSE IF tier = "Rare" THEN FloorDraw(h, 10) + 6
        ELSE FloorDraw(h, 20) + 16

\* lines 228-233: tricks[Math.floor(Math.random() * tricks.length)], reporting
\* Math.abs(candyChange)
TrickMessage(candyChange, h) ==
    <<"trick", FloorDraw(h, 3), IF candyChange < 0 THEN -candyChange ELSE candyChange>>

\* line 251
TreatMessage(candyChange) == <<"treat", candyChange>>

\* ------------------------------------------------------------------- state
InitDocs == { NoDoc, Doc(3, StartTime - COOLDOWN_TIME, <<>>) }

InitDocsOne ==
    {NoDoc} \cup
    { Doc(candy, StartTime - age, <<>>) :
        candy \in {0, 3, 60},
        age \in {0, 1800000, 3600000, 3601000, 7199000, 7200000} } \cup
    { [Doc(3, StartTime - 7200000, <<"hat">>) EXCEPT !.title = "The Bewitched"],
      Doc(50, StartTime - 7200000, <<>>) }

Idle == [pc |-> "idle", user |-> "u1", name |-> "none", now |-> 0,
         profile |-> DefaultProfile, readFailed |-> FALSE,
         p1 |-> -1, p2 |-> -1, magnitude |-> 0, isTrick |-> FALSE, tier |-> "none",
         candyChange |-> 0,
         remainingTime |-> 0, remainingHours |-> 0, remainingMinutes |-> 0,
         shop |-> <<>>,
         queryFailed |-> FALSE, snapshot |-> <<>>,
         leaderboardText |-> [kind |-> "fetching", lines |-> <<>>],
         committed |-> 0, reply |-> "none", notice |-> "none"]

\* a handler that has handed its reply to editReply, or has thrown, has no
\* locals left: what remains is the command, what it committed, what it sends
Left(l, pc) == [Idle EXCEPT !.pc = pc, !.name = l.name, !.committed = l.committed,
                            !.reply = l.reply, !.notice = l.notice]

InitWith(stores) ==
    /\ store \in stores
    /\ clock = StartTime
    /\ ticks = 0
    /\ cmd = [c \in Cmds |-> Idle]
    /\ initCandy = [u \in Users |-> store[u].candy]
    /\ applied = [u \in Users |-> 0]

\* lines 133-151 have run: the bot is signed in and its commands registered
Up == phase = "up" /\ userId = "uid"

Init ==
    /\ InitWith({ st \in [Users -> InitDocs] : \A u \in Users \ Racers : st[u] = NoDoc })
    /\ Up

InitOne ==
    /\ InitWith({ st \in [Users -> InitDocsOne] :
                    \A u \in Users \ {"u1"} : st[u] \in InitDocs })
    /\ Up

\* line 415: client.login has been called, the ready event is still to come
InitBoot ==
    /\ InitWith([Users -> InitDocs])
    /\ phase = "login"
    /\ userId = Undefined

\* ------------------------------------------------------------- ready listener
\* lines 133-135, 46-52: the ready event; the listener starts the sign-in and
\* awaits it
Ready ==
    /\ phase = "login"
    /\ phase' = "signing"
    /\ UNCHANGED <<store, clock, ticks, cmd, initCandy, applied, userId>>

\* lines 47-57, 138-144: the sign-in settles; a failure is logged and userId
\* stays unset; either way the listener goes on to register the commands
SignInDone(ok) ==
    /\ phase = "signing"
    /\ phase' = "registering"
    /\ userId' = IF ok THEN "uid" ELSE userId
    /\ UNCHANGED <<store, clock, ticks, cmd, initCandy, applied>>

\* lines 140-150: the registration settles, a failure is logged
RegisterDone(ok) ==
    /\ phase = "registering"
    /\ phase' = "up"
    /\ UNCHANGED <<store, clock, ticks, cmd, initCandy, applied, userId>>

\* Date.now() advances
Tick(d) ==
    /\ ticks < MaxTicks
    /\ clock' = clock + d
    /\ ticks' = ticks + 1
    /\ UNCHANGED <<store, cmd, initCandy, applied, phase, userId>>

\* ------------------------------------------------------- command dispatcher
\* lines 153-157: an interaction arrives, which the gateway delivers once the
\* ready event has been emitted (commands are numbered in order of arrival);
\* anything but a chat input command is dropped, a command is acknowledged
\* with deferReply, awaited outside the try
InteractionCreate(c, u, name, isChatInputCommand) ==
    /\ cmd[c].pc = "idle"
    /\ phase # "login"
    /\ \A b \in Cmds : b < c => cmd[b].pc # "idle"
    /\ cmd' = [cmd EXCEPT ![c] =
                 IF ~isChatInputCommand THEN [@ EXCEPT !.pc = "returned"]
                 ELSE [@ EXCEPT !.pc = "deferring", !.user = u, !.name = name]]
    /\ UNCHANGED <<store, clock, ticks, initCandy, applied, phase, userId>>

\* lines 157-178: deferReply settles.  A rejection leaves the listener (no try
\* around it); otherwise the handler of the command starts and runs up to its
\* first await: getDoc for trickortreat (after taking now), inventory and
\* shop, getDocs for topspook
DeferReplyDone(c, ok) ==
    /\ cmd[c].pc = "deferring"
    /\ cmd' = [cmd EXCEPT ![c] =
                 IF ~ok THEN Left(@, "escaped")
                 ELSE IF @.name = "trickortreat"
                      THEN [@ EXCEPT !.pc = "reading", !.now = clock]
                 ELSE IF @.name = "topspook" THEN [@ EXCEPT !.pc = "querying"]
                 ELSE [@ EXCEPT !.pc = "reading"]]
    /\ UNCHANGED <<store, clock, ticks, initCandy, applied, phase, userId>>

\* lines 198-209: the cooldown gate of handleTrickOrTreat has blocked the
\* action; the reply carries the remaining time
Blocked(l, profile) ==
    LET lastUsed == profile.lastUsed
        remainingTime == RemainingTime(lastUsed, l.now)
    IN  [l EXCEPT !.pc = "replying", !.reply = "cooldown", !.profile = profile,
                  !.remainingTime = remainingTime,
                  !.remainingHours = RemainingHours(remainingTime),
                  !.remainingMinutes = RemainingMinutes(remainingTime)]

\* lines 216-233: trick branch, up to the call of runTransaction
Trick(l, profile, p1, hm, hl) ==
    LET candyChange == TrickChange(profile.candy, hm)
    IN  [l EXCEPT !.pc = "transacting", !.p1 = p1, !.isTrick = TRUE,
                  !.magnitude = TrickMagnitude(hm), !.candyChange = candyChange,
                  !.profile = [profile EXCEPT !.message = TrickMessage(candyChange, hl)]]

\* lines 235-252: treat branch, up to the call of runTransaction
Treat(l, profile, p1, p2, hm) ==
    LET candyChange == TreatChange(p2, hm)
    IN  [l EXCEPT !.pc = "transacting", !.p1 = p1, !.p2 = p2, !.isTrick = FALSE,
                  !.tier = TreatTier(p2), !.magnitude = candyChange,
                  !.candyChange = candyChange,
                  !.profile = [profile EXCEPT !.message = TreatMessage(candyChange)]]

\* line 294: the names of the owned items; find() of an unknown id is undefined
KnownItem(id) == \E i \in 1..Len(SHOP_ITEMS) : SHOP_ITEMS[i].id = id

InventoryThrows(profile) ==
    \E k \in 1..Len(profile.inventory) : ~KnownItem(profile.inventory[k])

\* lines 194-254: handleTrickOrTreat from the profile read to its next await
handleTrickOrTreat(l, profile, p1, p2, hm, hl) ==
    IF CooldownBlocked(profile.lastUsed, l.now) THEN Blocked(l, profile)
    ELSE IF IsTrick(p1) THEN Trick(l, profile, p1, hm, hl)
    ELSE Treat(l, profile, p1, p2, hm)

\* lines 283-298
handleInventory(l, profile) ==
    IF InventoryThrows(profile) THEN Left(l, "notifying")
    ELSE [l EXCEPT !.pc = "replying", !.reply = "inventory", !.profile = profile]

\* line 310: profile.inventory.includes(item.id)
Owned(profile, item) ==
    \E k \in 1..Len(profile.inventory) : profile.inventory[k] = item.id

\* affordability with > for >=
AffordabilityStrict(profile, item) ==
    IF Owned(profile, item) THEN "OWNED"
    ELSE IF profile.candy > item.cost THEN "BUYABLE" ELSE "TOO POOR"

\* line 314: the status shown for an item
Affordability(profile, item) ==
    IF Owned(profile, item) THEN "OWNED"
    ELSE IF profile.candy >= item.cost THEN "BUYABLE" ELSE "TOO POOR"

\* lines 309-315: SHOP_ITEMS.forEach, one entry per item in catalog order
ShopListing(profile) ==
    [i \in 1..Len(SHOP_ITEMS) |->
        [id |-> SHOP_ITEMS[i].id, cost |-> SHOP_ITEMS[i].cost,
         status |-> Affordability(profile, SHOP_ITEMS[i])]]

\* lines 304-323
handleShop(l, profile) ==
    [l EXCEPT !.pc = "replying", !.reply = "shop", !.profile = profile,
              !.shop = ShopListing(profile)]

\* a read that persists the default profile of a user who has none
GetDocDonePersists(c, ok, p1, p2, hm, hl) ==
    /\ cmd[c].pc = "reading"
    /\ LET l == [cmd[c] EXCEPT !.readFailed = ~ok]
           profile == getUserProfile(l.user, ok)
       IN  /\ cmd' = [cmd EXCEPT ![c] =
                        IF l.name = "trickortreat"
                        THEN handleTrickOrTreat(l, profile, p1, p2, hm, hl)
                        ELSE IF l.name = "inventory" THEN handleInventory(l, profile)
                        ELSE handleShop(l, profile)]
           /\ store' = [store EXCEPT ![l.user] =
                          IF @.exists THEN @
                          ELSE [NoDoc EXCEPT !.exists = TRUE,
                                             !.title = "New Trick-or-Treater"]]
    /\ UNCHANGED <<clock, ticks, initCandy, applied, phase, userId>>

\* lines 86-108, 197, 284, 305: getDoc settles inside getUserProfile, which
\* never throws; the handler goes on to its next await with the draws
\* p1, p2, hm, hl of Math.random()
GetDocDone(c, ok, p1, p2, hm, hl) ==
    /\ cmd[c].pc = "reading"
    /\ LET l == [cmd[c] EXCEPT !.readFailed = ~ok]
           profile == getUserProfile(l.user, ok)
       IN  cmd' = [cmd EXCEPT ![c] =
                     IF l.name = "trickortreat"
                     THEN handleTrickOrTreat(l, profile, p1, p2, hm, hl)
                     ELSE IF l.name = "inventory" THEN handleInventory(l, profile)
                     ELSE handleShop(l, profile)]
    /\ UNCHANGED <<store, clock, ticks, initCandy, applied, phase, userId>>

\* --------------------------------------------------------------- transaction
\* the written document computed from the profile read before the transaction
CurrentDataStale(c) ==
    LET docSnap == store[cmd[c].user]
        currentData == IF docSnap.exists THEN docSnap
                       ELSE [NoDoc EXCEPT !.title = "New Trick-or-Treater"]
    IN  [currentData EXCEPT !.exists = TRUE,
                            !.candy = cmd[c].profile.candy + cmd[c].candyChange,
                            !.lastUsed = cmd[c].now,
                            !.username = UsernameOf(cmd[c].user)]

\* the written document built from the default profile, not from the one read
CurrentDataFresh(c) ==
    [NoDoc EXCEPT !.exists = TRUE,
                  !.title = "New Trick-or-Treater",
                  !.candy = store[cmd[c].user].candy + cmd[c].candyChange,
                  !.lastUsed = cmd[c].now,
                  !.username = UsernameOf(cmd[c].user)]

\* lines 256-261: the document the transaction writes for command c, computed
\* from the document it reads inside the transaction
CurrentData(c) ==
    LET docSnap == store[cmd[c].user]
        currentData == IF docSnap.exists THEN docSnap
                       ELSE [NoDoc EXCEPT !.title = "New Trick-or-Treater"]
    IN  [currentData EXCEPT !.exists = TRUE,
                            !.candy = @ + cmd[c].candyChange,
                            !.lastUsed = cmd[c].now,
                            !.username = UsernameOf(cmd[c].user)]

\* lines 255-277: runTransaction settles.  Firestore runs the update function
\* as one atomic read-modify-write; a failed transaction rejects and the
\* dispatcher's catch takes over.  After a commit profile is the written
\* object, which has no message; EmbedBuilder.setDescription either rejects
\* the missing description (the catch takes over) or the embed goes out
\* without it
RunTransactionDone(c, ok, embedThrows) ==
    /\ cmd[c].pc = "transacting"
    /\ IF ok
       THEN LET u == cmd[c].user
                written == CurrentData(c)
                l == [cmd[c] EXCEPT !.committed = @ + 1, !.reply = "reward"]
            IN  /\ store' = [store EXCEPT ![u] = written]
                /\ applied' = [applied EXCEPT ![u] = @ + cmd[c].candyChange]
                /\ cmd' = [cmd EXCEPT ![c] =
                             IF embedThrows THEN Left(l, "notifying")
                             ELSE [Left(l, "replying") EXCEPT
                                     !.profile = Data(written),
                                     !.candyChange = l.candyChange]]
       ELSE /\ ~embedThrows
            /\ cmd' = [cmd EXCEPT ![c] = Left(@, "notifying")]
            /\ UNCHANGED <<store, applied>>
    /\ UNCHANGED <<clock, ticks, initCandy, phase, userId>>

\* ---------------------------------------------------------------- topspook
\* documents of the collection the leaderboard query reads
Rows == { [username |-> "ann", title |-> "The Bewitched", candy |-> 30],
          [username |-> "cat", title |-> Undefined, candy |-> 30],
          [username |-> "bob", title |-> "New Trick-or-Treater", candy |-> 10],
          [username |-> Undefined, title |-> Undefined, candy |-> 0] }

\* lines 378-382: what orderBy('candy', 'desc') and limit(10) let getDocs
\* return: at most QueryLimit distinct documents, candy descending
SnapshotsOf(rows) ==
    LET most == IF MaxRows < QueryLimit THEN MaxRows ELSE QueryLimit
    IN  { docs \in UNION { [1..n -> rows] : n \in 0..most } :
            \A i, j \in 1..Len(docs) :
                i < j => (docs[i] # docs[j] /\ docs[i].candy >= docs[j].candy) }

Snapshots == SnapshotsOf({ r \in Rows : r.username = "bob" })

SnapshotsOne == SnapshotsOf(Rows)

\* line 394: one line of the leaderboard
Line(data, rank) ==
    [rank |-> rank,
     username |-> IF data.username = Undefined THEN "Mysterious User" ELSE data.username,
     title |-> IF data.title = Undefined THEN "Novice" ELSE data.title,
     candy |-> data.candy]

\* lines 392-395: snapshot.docs.map with rank++
RECURSIVE Ranked(_, _)
Ranked(docs, rank) ==
    IF docs = <<>> THEN <<>>
    ELSE <<Line(Head(docs), rank)>> \o Ranked(Tail(docs), rank + 1)

\* the ranking counted from 0
LeaderboardLinesFromZero(docs) == Ranked(docs, 0)

\* lines 384, 392: let rank = 1 on every call
LeaderboardLines(docs) == Ranked(docs, 1)

\* a failing query shown as an empty competition
LeaderboardTextSilent(ok, docs) ==
    IF ~ok \/ docs = <<>> THEN [kind |-> "empty", lines |-> <<>>]
    ELSE [kind |-> "ranking", lines |-> LeaderboardLines(docs)]

\* lines 343-402: the text of the leaderboard embed
LeaderboardText(ok, docs) ==
    IF ~ok THEN [kind |-> "unavailable", lines |-> <<>>]
    ELSE IF docs = <<>> THEN [kind |-> "empty", lines |-> <<>>]
    ELSE [kind |-> "ranking", lines |-> LeaderboardLines(docs)]

\* lines 378-410: getDocs settles with the documents docs or rejects; a
\* failing query is caught in the handler
GetDocsDone(c, ok, docs) ==
    /\ cmd[c].pc = "querying"
    /\ LET text == LeaderboardText(ok, docs)
       IN  cmd' = [cmd EXCEPT ![c] =
                     [@ EXCEPT !.pc = "replying", !.reply = text.kind,
                               !.queryFailed = ~ok,
                               !.snapshot = IF ok THEN docs ELSE <<>>,
                               !.leaderboardText = text]]
    /\ UNCHANGED <<store, clock, ticks, initCandy, applied, phase, userId>>

\* lines 205, 277, 298, 323, 410: the handler's editReply settles; a rejection
\* is thrown into the dispatcher's catch
EditReplyDone(c, ok) ==
    /\ cmd[c].pc = "replying"
    /\ cmd' = [cmd EXCEPT ![c] =
                 IF ok THEN [Left(@, "done") EXCEPT !.notice = cmd[c].reply]
                 ELSE Left(@, "notifying")]
    /\ UNCHANGED <<store, clock, ticks, initCandy, applied, phase, userId>>

\* lines 179-185: the catch sends the generic failure notice; a rejection of
\* that editReply leaves the listener
NoticeDone(c, ok) ==
    /\ cmd[c].pc = "notifying"
    /\ cmd' = [cmd EXCEPT ![c] =
                 IF ok THEN [Left(@, "done") EXCEPT !.notice = "failure"]
                 ELSE Left(@, "escaped")]
    /\ UNCHANGED <<store, clock, ticks, initCandy, applied, phase, userId>>

\* ------------------------------------------------------------ specifications
\* any interleaving of the commands of one user
Next ==
    \/ \E d \in Deltas : Tick(d)
    \/ \E c \in Cmds, u \in Racers, name \in CommandNames, chat \in BOOLEAN :
          InteractionCreate(c, u, name, chat)
    \/ \E c \in Cmds, ok \in Answers : DeferReplyDone(c, ok)
    \/ \E c \in Cmds, ok \in BOOLEAN, p1 \in P1Draws, p2 \in P2Draws,
          hm \in MagDraws, hl \in LineDraws : GetDocDone(c, ok, p1, p2, hm, hl)
    \/ \E c \in Cmds, ok \in BOOLEAN, embedThrows \in BOOLEAN :
          RunTransactionDone(c, ok, embedThrows)
    \/ \E c \in Cmds, ok \in BOOLEAN, docs \in Snapshots : GetDocsDone(c, ok, docs)
    \/ \E c \in Cmds, ok \in Answers : EditReplyDone(c, ok)
    \/ \E c \in Cmds, ok \in Answers : NoticeDone(c, ok)

Spec == Init /\ [][Next]_vars

\* one command on its own, over many stores, times and draws
NextOne ==
    \/ \E d \in DeltasOne : Tick(d)
    \/ \E u \in Users, name \in CommandNames, chat \in BOOLEAN :
          InteractionCreate(1, u, name, chat)
    \/ \E ok \in BOOLEAN : DeferReplyDone(1, ok)
    \/ \E ok \in BOOLEAN, p1 \in P1DrawsOne, p2 \in P2DrawsOne,
          hm \in MagDrawsOne, hl \in LineDrawsOne : GetDocDone(1, ok, p1, p2, hm, hl)
    \/ \E ok \in BOOLEAN, embedThrows \in BOOLEAN : RunTransactionDone(1, ok, embedThrows)
    \/ \E ok \in BOOLEAN, docs \in SnapshotsOne : GetDocsDone(1, ok, docs)
    \/ \E ok \in BOOLEAN : EditReplyDone(1, ok)
    \/ \E ok \in BOOLEAN : NoticeDone(1, ok)

SpecOne == InitOne /\ [][NextOne]_vars

\* the start of the bot with one command arriving at any time after ready
NextBoot ==
    \/ Ready
    \/ \E ok \in BOOLEAN : SignInDone(ok)
    \/ \E ok \in BOOLEAN : RegisterDone(ok)
    \/ \E d \in Deltas : Tick(d)
    \/ \E u \in Users, name \in CommandNames, chat \in BOOLEAN :
          InteractionCreate(1, u, name, chat)
    \/ \E ok \in BOOLEAN : DeferReplyDone(1, ok)
    \/ \E ok \in BOOLEAN, p1 \in P1Draws, p2 \in P2Draws,
          hm \in MagDraws, hl \in LineDraws : GetDocDone(1, ok, p1, p2, hm, hl)
    \/ \E ok \in BOOLEAN, embedThrows \in BOOLEAN : RunTransactionDone(1, ok, embedThrows)
    \/ \E ok \in BOOLEAN, docs \in Snapshots : GetDocsDone(1, ok, docs)
    \/ \E ok \in BOOLEAN : EditReplyDone(1, ok)
    \/ \E ok \in BOOLEAN : NoticeDone(1, ok)

SpecBoot == InitBoot /\ [][NextBoot]_vars

TypeOK ==
    /\ \A u \in Users : store[u].candy \in Int /\ store[u].lastUsed \in Nat
    /\ \A c \in Cmds : cmd[c].committed \in 0..1
    /\ \A c \in Cmds : cmd[c].leaderboardText.kind \in QueryResults \cup {"fetching"}

\* ------------------------------------------------------------------ claims
\* the step in which the transaction of command c commits
Commits(c) == cmd[c].pc = "transacting" /\ cmd'[c].committed = cmd[c].committed + 1

\* command c has passed the cooldown gate and drawn its outcome
Drawn(c) == cmd[c].name = "trickortreat" /\ cmd[c].pc = "transacting"

\* command c was stopped by the cooldown gate
Stopped(c) == cmd[c].name = "trickortreat" /\ cmd[c].pc = "replying"
              /\ cmd[c].reply = "cooldown"

\* C1: the candy of every persisted profile is >= 0 in every reachable state,
\* whatever the interleaving of trickortreat commands.
C1_CandyNeverNegative == \A u \in Users : store[u].exists => store[u].candy >= 0

\* C2: a committing trick (whose profile read succeeded) writes
\* max(0, balance read inside the transaction minus the drawn magnitude).
C2_TrickClampedAtCommit ==
    [][\A c \in Cmds :
         (Commits(c) /\ cmd[c].isTrick /\ ~cmd[c].readFailed) =>
            LET balance == store[cmd[c].user].candy
                left == balance - cmd[c].magnitude
            IN  store'[cmd[c].user].candy = IF left < 0 THEN 0 ELSE left]_vars

\* C3: every commit with timestamp now overwrites a lastUsed with
\* lastUsed + 7,200,000 <= now.
C3_CommitsCooldownApart ==
    [][\A c \in Cmds :
         Commits(c) => store[cmd[c].user].lastUsed + 7200000 <= cmd[c].now]_vars

\* C4: no committed update is lost: the persisted candy of every user is the
\* initial candy plus the candyChange of every committed command, and no
\* command commits twice.
C4_NoLostUpdate ==
    /\ \A u \in Users : store[u].candy = initCandy[u] + applied[u]
    /\ \A c \in Cmds : cmd[c].committed <= 1

\* two commands of u1 that each computed -3 against the balance 3 have both
\* committed
C4_Witness ==
    /\ cmd[1].committed = 1 /\ cmd[2].committed = 1
    /\ initCandy["u1"] = 3 /\ applied["u1"] = -6

\* C5: the gate blocks iff now < lastUsed + 7,200,000, with
\* remaining = lastUsed + 7,200,000 - now > 0, and allows iff
\* lastUsed + 7,200,000 <= now (boundary and never-used profile included).
C5_CooldownGate ==
    \A c \in Cmds :
        LET lastUsed == cmd[c].profile.lastUsed
            now == cmd[c].now
        IN  /\ Stopped(c) => /\ now < lastUsed + 7200000
                             /\ cmd[c].remainingTime = lastUsed + 7200000 - now
                             /\ cmd[c].remainingTime > 0
            /\ Drawn(c) => lastUsed + 7200000 <= now
            /\ (Stopped(c) \/ Drawn(c)) => lastUsed >= 0

\* a command is allowed exactly at the boundary now = lastUsed + 7,200,000
C5_Witness ==
    \E c \in Cmds : /\ Drawn(c)
                    /\ cmd[c].profile.lastUsed > 0
                    /\ cmd[c].now = cmd[c].profile.lastUsed + 7200000

\* C6: for remaining in 1..7,200,000 the display shows
\* hours = floor(remaining / 3,600,000) and
\* minutes = ceiling((remaining mod 3,600,000) / 60,000); 5,400,000 shows
\* 1h 30m and 1000 shows 1 minute.
C6_RemainingDisplay ==
    \A c \in Cmds :
        (Stopped(c) /\ cmd[c].remainingTime \in 1..7200000) =>
            LET remaining == cmd[c].remainingTime
                hours == cmd[c].remainingHours
                minutes == cmd[c].remainingMinutes
                rest == remaining - hours * 3600000
            IN  /\ hours >= 0 /\ minutes >= 0
                /\ hours * 3600000 <= remaining /\ remaining < (hours + 1) * 3600000
                /\ (minutes - 1) * 60000 < rest /\ rest <= minutes * 60000
                /\ remaining = 5400000 => (hours = 1 /\ minutes = 30)
                /\ remaining = 1000 => (hours = 0 /\ minutes = 1)

\* a blocked command with one second left shows 0h 1m
C6_Witness ==
    \E c \in Cmds : /\ Stopped(c)
                    /\ cmd[c].remainingTime = 1000
                    /\ cmd[c].remainingHours = 0
                    /\ cmd[c].remainingMinutes = 1

C8_OutcomeSelection ==
    \A c \in Cmds :
        Drawn(c) =>
            LET p1 == cmd[c].p1
                p2 == cmd[c].p2
                candyChange == cmd[c].candyChange
            IN  /\ cmd[c].isTrick <=> p1 < 10
                /\ ~cmd[c].isTrick =>
                     /\ p2 < 75 => (cmd[c].tier = "Common" /\ candyChange \in 1..5)
                     /\ (75 <= p2 /\ p2 < 95) =>
                            (cmd[c].tier = "Rare" /\ candyChange \in 6..15)
                     /\ p2 >= 95 => (cmd[c].tier = "Jackpot" /\ candyChange \in 16..35)
                     /\ candyChange >= 1

\* a treat whose tier draw is exactly 0.75 is Rare
C8_Witness ==
    \E c \in Cmds : /\ Drawn(c) /\ ~cmd[c].isTrick
                    /\ cmd[c].p2 = 75
                    /\ cmd[c].tier = "Rare"

\* C9: a trickortreat whose profile read failed does not pass the cooldown
\* gate on the default values and commits no reward.
C9_ReadFailureStops ==
    \A c \in Cmds : (cmd[c].name = "trickortreat" /\ cmd[c].readFailed) => ~Drawn(c)

\* C10: no error escapes the interactionCreate listener, whichever step fails.
C10_NoErrorEscapes == \A c \in Cmds : cmd[c].pc # "escaped"

\* C11: the persisted profiles change only in the step in which a trickortreat
\* transaction commits (so a blocked trickortreat, inventory, shop, topspook
\* and a mere read leave them unchanged), and no step deletes a profile.
C11_StoreFrame ==
    [][/\ store' # store =>
            \E c \in Cmds : Commits(c) /\ cmd[c].name = "trickortreat"
       /\ \A u \in Users : store[u].exists => store'[u].exists]_vars

\* an inventory command has read a lazy default and finished, and no profile
\* is persisted
C11_Witness ==
    /\ \E c \in Cmds : cmd[c].pc = "done" /\ cmd[c].notice = "inventory"
    /\ \A u \in Users : ~store[u].exists

\* C12: a commit of user u adds candyChange to candy, sets lastUsed to the
\* action's now and username to the invoker's name, keeps the title and
\* inventory read inside the transaction, and leaves every other user alone.
C12_CommitFrame ==
    [][\A c \in Cmds :
         Commits(c) =>
            LET u == cmd[c].user
                before == store[u]
                after == store'[u]
            IN  /\ after.exists
                /\ after.candy = before.candy + cmd[c].candyChange
                /\ after.lastUsed = cmd[c].now
                /\ after.username = UsernameOf(u)
                /\ after.inventory = before.inventory
                /\ after.title = IF before.exists THEN before.title
                                 ELSE "New Trick-or-Treater"
                /\ \A v \in Users \ {u} : store'[v] = store[v]]_vars

\* the owner of the hat has committed a reward: name updated, title and
\* inventory kept
C12_Witness ==
    /\ cmd[1].committed = 1
    /\ store["u1"].username = "ann"
    /\ store["u1"].inventory = <<"hat">>
    /\ store["u1"].title = "The Bewitched"

\* C16: the description of the reply to a committed reward is the message
\* attached to the profile before the transaction.
C16_ReplyShowsMessage ==
    [][\A c \in Cmds :
         (Commits(c) /\ cmd'[c].pc = "replying") =>
            /\ cmd'[c].profile.message = cmd[c].profile.message
            /\ cmd'[c].profile.message # NoMessage]_vars

\* C18: a trickortreat that ends with the generic failure notice has
\* persisted no balance change.
C18_FailureMeansNoCommit ==
    \A c \in Cmds :
        (cmd[c].name = "trickortreat" /\ cmd[c].pc = "done"
         /\ cmd[c].notice = "failure") => cmd[c].committed = 0

\* C19: every commit writes a lastUsed >= the lastUsed it overwrites.
C19_LastUsedMonotone ==
    [][\A c \in Cmds :
         Commits(c) => cmd[c].now >= store[cmd[c].user].lastUsed]_vars

\* C15: every shop invocation lists hat (50), mask (150), ghost (300) in that
\* order; an item is Owned if its id is in the inventory, whatever the
\* balance, else Buyable if candy >= cost, else TooExpensive.
C15_ShopAffordability ==
    \A c \in Cmds :
        (cmd[c].pc = "replying" /\ cmd[c].reply = "shop") =>
            LET listing == cmd[c].shop
                candy == cmd[c].profile.candy
                inventory == cmd[c].profile.inventory
                owned == { inventory[k] : k \in 1..Len(inventory) }
            IN  /\ [i \in 1..Len(listing) |-> <<listing[i].id, listing[i].cost>>]
                     = << <<"hat", 50>>, <<"mask", 150>>, <<"ghost", 300>> >>
                /\ \A i \in 1..Len(listing) :
                     /\ listing[i].id \in owned => listing[i].status = "OWNED"
                     /\ (listing[i].id \notin owned /\ candy >= listing[i].cost)
                            => listing[i].status = "BUYABLE"
                     /\ (listing[i].id \notin owned /\ candy < listing[i].cost)
                            => listing[i].status = "TOO POOR"

\* a balance of exactly 50 makes the hat buyable and the mask too expensive
C15_Witness ==
    \E c \in Cmds : /\ cmd[c].pc = "replying" /\ cmd[c].reply = "shop"
                    /\ cmd[c].profile.candy = 50
                    /\ cmd[c].shop[1].status = "BUYABLE"
                    /\ cmd[c].shop[2].status = "TOO POOR"

\* C13: for a query result of k <= 10 profiles in candy-descending order the
\* leaderboard lists exactly those k profiles in that order with ranks
\* 1, 2, ..., k, one rank per entry, ties included.
C13_LeaderboardRanks ==
    \A c \in Cmds :
        (cmd[c].pc = "replying" /\ cmd[c].reply = "ranking") =>
            LET docs == cmd[c].snapshot
                lines == cmd[c].leaderboardText.lines
            IN  /\ Len(lines) = Len(docs) /\ Len(lines) \in 1..10
                /\ \A i \in 1..Len(lines) :
                     /\ lines[i].rank = i
                     /\ lines[i].candy = docs[i].candy
                     /\ docs[i].username # Undefined
                            => lines[i].username = docs[i].username
                /\ \A i, j \in 1..Len(lines) :
                     i < j => lines[i].candy >= lines[j].candy

\* three entries, the first two tied at 30, ranked 1, 2, 3
C13_Witness ==
    \E c \in Cmds : /\ cmd[c].pc = "replying" /\ cmd[c].reply = "ranking"
                    /\ Len(cmd[c].leaderboardText.lines) = 3
                    /\ cmd[c].leaderboardText.lines[1].candy = 30
                    /\ cmd[c].leaderboardText.lines[2].candy = 30
                    /\ cmd[c].leaderboardText.lines[2].rank = 2
                    /\ cmd[c].leaderboardText.lines[3].rank = 3

\* C14: when the query settles the handler goes on to its reply (never to
\* the generic failure notice) with a ranking for a non-empty result, the
\* empty result for an empty one, and the unavailable result for a failed
\* query, three different results.
C14_LeaderboardResults ==
    [][\A c \in Cmds :
         (cmd[c].pc = "querying" /\ cmd'[c].pc # "querying") =>
            LET text == cmd'[c].leaderboardText
            IN  /\ cmd'[c].pc = "replying"
                /\ cmd'[c].queryFailed => (text.kind = "unavailable" /\ text.lines = <<>>)
                /\ (~cmd'[c].queryFailed /\ cmd'[c].snapshot = <<>>)
                        => (text.kind = "empty" /\ text.lines = <<>>)
                /\ (~cmd'[c].queryFailed /\ cmd'[c].snapshot # <<>>)
                        => (text.kind = "ranking" /\ text.lines # <<>>)]_vars

\* a failed query is about to be answered with the unavailable result
C14_Witness ==
    \E c \in Cmds : /\ cmd[c].name = "topspook" /\ cmd[c].pc = "replying"
                    /\ cmd[c].queryFailed
                    /\ cmd[c].leaderboardText.kind = "unavailable"

\* C17: no handler has a profile read, a transaction or the leaderboard query
\* under way before initializeFirebaseAndAuth, started by the ready event,
\* has finished.
C17_SignInBeforeStore ==
    \A c \in Cmds :
        cmd[c].pc \in {"reading", "transacting", "querying"}
            => phase \notin {"login", "signing"}
====
